---- MODULE Spec2Model ----
(***************************************************************************)
(* Model of the intervals.icu coach connector:                             *)
(*   - src/src/config.ts        loadEnvFile, loadConfig                    *)
(*   - src/unnamed/part_000     downloadAllData, saveData, generateSummary,*)
(*                              main of the per-athlete download script    *)
(*   - src/unnamed/part_002     IntervalsClient, parseInput, output, main  *)
(*                              of the command-line interface              *)
(* Each subsystem has its own specification (SpecConfig, SpecDownload,     *)
(* SpecSave, SpecSummary, SpecCli) over one set of variables; a            *)
(* specification leaves the variables of the other subsystems at their     *)
(* initial value.                                                          *)
(***************************************************************************)
EXTENDS Integers, Sequences, FiniteSets, TLC

VARIABLES
    \* ---- configuration resolver (config.ts)
    env,          \* process.env: a partial function name -> string
    files,        \* the file system: path -> file state
    cfg,          \* outcome of the last loadConfig call
    envBefore,    \* process.env as it was when the last call started
    calls,        \* number of loadConfig calls made so far
    \* ---- download script (part_000); pc, requests, responses and inflight
    \*      are also those of a run of the command-line interface
    athleteId,    \* args[0] || 'me'
    pc,           \* where main / downloadAllData is suspended
    loopIdx,      \* index of the activity the per-activity loop is at
    result,       \* the DownloadResult under construction
    requests,     \* every request issued so far, in order
    responses,    \* the answer to each completed request, in order
    inflight,     \* the requests awaiting a response
    log,          \* the result lines downloadAllData printed, in order
    \* ---- persistence and summary (part_000)
    clock,        \* the system clock, in milliseconds
    disk,         \* DATA_DIR: subdirectory -> the files written into it
    saveLog,      \* the subdirectory paths returned by saveData, in order
    saveOps,      \* every saveData call: its directory and the files it wrote
    summary,      \* the lines printed by generateSummary, or NotRun
    \* ---- command-line interface (part_002, main)
    argv,         \* the command, the --json argument and the standard input
    stdout,       \* the payloads written to standard output, in order
    exitCode      \* process.exitCode

cfgVars  == <<env, files, cfg, envBefore, calls>>
dlVars   == <<athleteId, pc, loopIdx, result, requests, responses, inflight, log>>
saveVars == <<clock, disk, saveLog, saveOps>>
cliVars  == <<argv, stdout, exitCode>>
vars     == <<env, files, cfg, envBefore, calls,
              athleteId, pc, loopIdx, result, requests, responses, inflight, log,
              clock, disk, saveLog, saveOps, summary,
              argv, stdout, exitCode>>

-----------------------------------------------------------------------------
(* Generic helpers.                                                        *)

\* A string-valued slot (an environment variable, a JSON string field) holds a
\* string or JavaScript's undefined; undefined is a value no string of the
\* model equals.
undefined == "<undefined>"

\* JavaScript truthiness of a string-or-undefined value: `if (x)`, `x || d`.
Truthy(v) == v # undefined /\ v # ""

\* x || d
OrElse(v, d) == IF Truthy(v) THEN v ELSE d

\* obj[key] on an object modelled as a partial function to strings.
Get(obj, key) == IF key \in DOMAIN obj THEN obj[key] ELSE undefined

\* obj[key] = value
Put(obj, key, value) ==
    [k \in DOMAIN obj \cup {key} |-> IF k = key THEN value ELSE obj[k]]

\* Structured JavaScript values: null, undefined, an object (a partial function
\* from field names), an array (a sequence).
JNull      == [t |-> "null"]
JUndefined == [t |-> "undefined"]
JObject(fields) == [t |-> "object", f |-> fields]
JArray(items)   == [t |-> "array", items |-> items]
NoFields == [k \in {} |-> undefined]

\* x?.key where the field holds a structured value
OptField(x, key) ==
    IF x.t = "object" /\ key \in DOMAIN x.f THEN x.f[key] ELSE JUndefined

\* x?.key where the field holds a string
OptString(x, key) == IF x.t = "object" THEN Get(x.f, key) ELSE undefined

SeqsUpTo(S, n) == UNION {[1..k -> S] : k \in 0..n}

-----------------------------------------------------------------------------
(* Configuration resolver: src/src/config.ts                               *)

API_KEY_VAR     == "INTERVALS_ICU_API_KEY"
BASE_URL_VAR    == "INTERVALS_ICU_BASE_URL"
ENV_FILE_VAR    == "OPENCLAW_ENV_FILE"
CONFIG_PATH_VAR == "COACH_CONFIG_PATH"

DefaultEnvFile    == "/etc/openclaw/openclaw.env"
DefaultConfigPath == "../config.json"
AltEnvFile        == "/tmp/alt.env"
AltConfigPath     == "/tmp/alt-config.json"

\* Bounds of the configuration model.
MaxLines == 2      \* lines of an env file
MaxCalls == 2      \* loadConfig calls in one process

\* A line of an env file is a sequence of tokens; " " is white space.
\* line.trim()
RECURSIVE TrimLeft(_)
TrimLeft(s) == IF s # <<>> /\ Head(s) = " " THEN TrimLeft(Tail(s)) ELSE s

RECURSIVE TrimRight(_)
TrimRight(s) ==
    IF s # <<>> /\ s[Len(s)] = " " THEN TrimRight(SubSeq(s, 1, Len(s) - 1)) ELSE s

Trim(s) == TrimRight(TrimLeft(s))

\* trimmed.indexOf('='), 1-based; 0 when there is none (-1 in the source)
IndexOfEq(s) ==
    IF \E i \in 1..Len(s) : s[i] = "="
    THEN CHOOSE i \in 1..Len(s) : s[i] = "=" /\ \A j \in 1..(i - 1) : s[j] # "="
    ELSE 0

\* The string a token sequence stands for: "" for none, the token for one
\* (the lines of EnvLines have one-token keys and values).
Str(s) == IF s = <<>> THEN "" ELSE IF Len(s) = 1 THEN s[1] ELSE "<composite>"

\* HydrateLine that skips blank lines only, not the lines starting with '#'.
HydrateLine_CommentsDefine(e, line) ==
    LET trimmed == Trim(line)
        eq      == IndexOfEq(trimmed)
        key     == Str(Trim(SubSeq(trimmed, 1, eq - 1)))
        value   == Str(Trim(SubSeq(trimmed, eq + 1, Len(trimmed))))
    IN  IF trimmed = <<>> THEN e
        ELSE IF eq = 0 THEN e
        ELSE IF ~Truthy(Get(e, key)) THEN Put(e, key, value)
        ELSE e

\* The body of the for loop of loadEnvFile: one line applied to process.env.
HydrateLine(e, line) ==
    LET trimmed == Trim(line)
        eq      == IndexOfEq(trimmed)
        key     == Str(Trim(SubSeq(trimmed, 1, eq - 1)))
        value   == Str(Trim(SubSeq(trimmed, eq + 1, Len(trimmed))))
    IN  IF trimmed = <<>> \/ Head(trimmed) = "#" THEN e
        ELSE IF eq = 0 THEN e
        ELSE IF ~Truthy(Get(e, key)) THEN Put(e, key, value)
        ELSE e

RECURSIVE HydrateLines(_, _)
HydrateLines(e, lines) ==
    IF lines = <<>> THEN e
    ELSE HydrateLines(HydrateLine(e, Head(lines)), Tail(lines))

\* loadEnvFile(filePath): the environment it leaves behind.
loadEnvFile(e, fs, filePath) ==
    IF fs[filePath].kind = "absent" THEN e            \* !fs.existsSync
    ELSE IF fs[filePath].kind = "unreadable" THEN e   \* readFileSync throws: caught
    ELSE HydrateLines(e, fs[filePath].lines)

\* The two errors loadConfig throws itself, and JSON.parse's.
NotFoundMessage   == "Missing INTERVALS_ICU_API_KEY and config file not found at"
MissingKeyMessage == "config.json missing intervalsIcu.apiKey"
ParseMessage      == "SyntaxError: Unexpected token in JSON"
ReadMessage       == "EACCES: permission denied, open"

Thrown(msg, path) == [status |-> "error", message |-> msg, path |-> path]
Returned(key, url) == [status |-> "ok", apiKey |-> key, baseUrl |-> url]

\* ResolveFromFile with one error for every failure of the config file.
ResolveFromFile_OneError(e, fs) ==
    LET configPath == OrElse(Get(e, CONFIG_PATH_VAR), DefaultConfigPath)
        file       == fs[configPath]
        config     == IF file.kind = "json" THEN file.value ELSE JNull
        icu        == OptField(config, "intervalsIcu")
    IN  IF file.kind # "json" \/ ~Truthy(OptString(icu, "apiKey"))
        THEN Thrown(NotFoundMessage, configPath)
        ELSE Returned(OptString(icu, "apiKey"), OptString(icu, "baseUrl"))

\* loadConfig from line 44 on: the config-file branch.
ResolveFromFile(e, fs) ==
    LET configPath == OrElse(Get(e, CONFIG_PATH_VAR), DefaultConfigPath)
        file       == fs[configPath]
        config     == IF file.kind = "json" THEN file.value ELSE JNull
        icu        == OptField(config, "intervalsIcu")
    IN  IF file.kind = "absent" THEN Thrown(NotFoundMessage, configPath)
        ELSE IF file.kind = "unreadable" THEN Thrown(ReadMessage, configPath)
        ELSE IF file.kind = "badjson" THEN Thrown(ParseMessage, "")
        ELSE IF ~Truthy(OptString(icu, "apiKey")) THEN Thrown(MissingKeyMessage, "")
        ELSE Returned(OptString(icu, "apiKey"), OptString(icu, "baseUrl"))

\* Resolve testing `envApiKey !== undefined` in place of `envApiKey`.
Resolve_DefinedOnly(e, fs) ==
    LET envApiKey  == Get(e, API_KEY_VAR)
        envBaseUrl == Get(e, BASE_URL_VAR)
    IN  IF envApiKey # undefined THEN Returned(envApiKey, envBaseUrl)
        ELSE ResolveFromFile(e, fs)

\* loadConfig from line 34 on, on the hydrated environment.
Resolve(e, fs) ==
    LET envApiKey  == Get(e, API_KEY_VAR)
        envBaseUrl == Get(e, BASE_URL_VAR)
    IN  IF Truthy(envApiKey) THEN Returned(envApiKey, envBaseUrl)
        ELSE ResolveFromFile(e, fs)

\* The environment after lines 30-32 of loadConfig.
Hydrated(e, fs) == loadEnvFile(e, fs, OrElse(Get(e, ENV_FILE_VAR), DefaultEnvFile))

NoCfg == [status |-> "none"]

\* ---- the inputs of the configuration model
EnvLines ==
    { <<" ">>,                                   \* blank line
      <<"#", API_KEY_VAR, "=", "keyC">>,         \* comment
      <<API_KEY_VAR>>,                           \* no '='
      <<API_KEY_VAR, "=">>,                      \* empty value
      <<" ", API_KEY_VAR, " ", "=", " ", "keyB", " ">>,
      <<BASE_URL_VAR, "=", "urlB">>,
      <<ENV_FILE_VAR, "=", AltEnvFile>>,
      <<CONFIG_PATH_VAR, "=", AltConfigPath>> }

Absent     == [kind |-> "absent"]
Unreadable == [kind |-> "unreadable"]
TextFile(lines) == [kind |-> "text", lines |-> lines]
JsonFile(v) == [kind |-> "json", value |-> v]

EnvFileStates ==
    {Absent, Unreadable} \cup {TextFile(l) : l \in SeqsUpTo(EnvLines, MaxLines)}

AltEnvFileStates ==
    {Absent, TextFile(<<<<API_KEY_VAR, "=", "keyD">>, <<BASE_URL_VAR, "=", "urlD">>>>)}

Icu(fields) == JObject([intervalsIcu |-> JObject(fields)])

ConfigFileStates ==
    { Absent,
      Unreadable,
      [kind |-> "badjson"],
      JsonFile(JObject(NoFields)),                                \* {}
      JsonFile(JObject([intervalsIcu |-> JNull])),
      JsonFile(Icu([baseUrl |-> "urlF"])),                        \* no apiKey
      JsonFile(Icu([apiKey |-> "", baseUrl |-> "urlF"])),
      JsonFile(Icu([apiKey |-> "keyF"])),
      JsonFile(Icu([apiKey |-> "keyF", baseUrl |-> "urlF"])) }

AltConfigFileStates ==
    {Absent, JsonFile(Icu([apiKey |-> "keyG", baseUrl |-> "urlG"]))}

\* The values a variable may hold in the environment the process starts with.
EnvValues(v) ==
    CASE v = API_KEY_VAR     -> {"", "keyA"}
      [] v = BASE_URL_VAR    -> {"", "urlA"}
      [] v = ENV_FILE_VAR    -> {AltEnvFile}
      [] v = CONFIG_PATH_VAR -> {AltConfigPath}

EnvVars == {API_KEY_VAR, BASE_URL_VAR, ENV_FILE_VAR, CONFIG_PATH_VAR}

\* Every environment: each variable unset or set to one of its values.
EnvChoices ==
    UNION { {e \in [S -> UNION {EnvValues(v) : v \in EnvVars}] :
                \A v \in S : e[v] \in EnvValues(v)} : S \in SUBSET EnvVars }

FileSystems ==
    { [p \in {DefaultEnvFile, AltEnvFile, DefaultConfigPath, AltConfigPath} |->
         CASE p = DefaultEnvFile    -> a
           [] p = AltEnvFile        -> b
           [] p = DefaultConfigPath -> c
           [] p = AltConfigPath     -> d] :
      a \in EnvFileStates, b \in AltEnvFileStates,
      c \in ConfigFileStates, d \in AltConfigFileStates }

\* One call of loadConfig(): hydrate, then resolve.
loadConfig(e, fs) == Resolve(Hydrated(e, fs), fs)

-----------------------------------------------------------------------------
(* Bulk download: src/unnamed/part_000, downloadAllData                    *)

\* Bounds of the download model.
MaxActs == 2       \* activities the list fetch returns

\* An activity as the remote service returns it. distance and moving_time are
\* read as `a.distance || 0`, so an absent number is modelled as 0; type is a
\* string or undefined. src tells the list entry from the detail record.
Activity(id, type, distance, time, src) ==
    [id |-> id, type |-> type, distance |-> distance, moving_time |-> time,
     src |-> src]

\* The activities the remote service of the download model knows.
Catalog ==
    { Activity("a1", "Run", 5000, 1800, "list"),
      Activity("a2", "Ride", 10150, 3659, "list") }

\* What GET /activity/{id} answers for a list entry: its detail record.
DetailOf(a) == [a EXCEPT !.src = "detail"]

\* What GET /activity/{id}/streams answers.
StreamsOf(id) == [streamsOf |-> id]

Failure   == [ok |-> FALSE]
Ok(data)  == [ok |-> TRUE, data |-> data]

\* The answers of the remote service: an error, or a body. Bodies are not
\* validated (the fields are typed `any`): a list endpoint may answer null.
AthleteResponses ==
    { Failure, Ok(JNull),
      Ok(JObject([name |-> "Chris"])),
      Ok(JObject([id |-> "i1", name |-> "Chris"])) }

ActivitiesResponses ==
    {Failure, Ok(JNull)} \cup {Ok(JArray(l)) : l \in SeqsUpTo(Catalog, MaxActs)}

EventsResponses   == {Failure, Ok(JNull), Ok(JArray(<<"e1", "e2">>))}
WellnessResponses == {Failure, Ok(JNull), Ok(JArray(<<"w1">>))}
PowerResponses    == {Failure, Ok(JObject([watts |-> "curve"]))}

AthleteIds == {"me", "i7"}     \* args[0] || 'me'

\* Lines 43-51: the result downloadAllData starts from.
EmptyResult ==
    [athlete        |-> JNull,
     activities     |-> JArray(<<>>),
     activityDetails|-> JArray(<<>>),
     calendarEvents |-> JArray(<<>>),
     wellness       |-> JArray(<<>>),
     powerCurve     |-> JNull,
     streams        |-> JObject(NoFields)]

\* ResolvedId falling back to the literal 'me' in place of the input id.
ResolvedId_Me(res, inputId) == OrElse(OptString(res.athlete, "id"), "me")

\* ResolvedId ignoring the fetched athlete record.
ResolvedId_InputOnly(res, inputId) == inputId

\* Line 63: const id = result.athlete?.id || athleteId
ResolvedId(res, inputId) == OrElse(OptString(res.athlete, "id"), inputId)

\* result.<field> = <response>.data, inside the try: only when the fetch succeeded.
Assign(res, field, resp) ==
    IF resp.ok THEN [res EXCEPT ![field] = resp.data] ELSE res

\* PushDetail with unshift in place of push.
PushDetail_Front(res, data) ==
    [res EXCEPT !.activityDetails = JArray(<<data>> \o @.items)]

\* Line 82: result.activityDetails.push(detailRes.data)
PushDetail(res, data) ==
    [res EXCEPT !.activityDetails = JArray(Append(@.items, data))]

\* Line 90: result.streams[activity.id] = streamsRes.data
PutStreams(res, id, data) ==
    [res EXCEPT !.streams = JObject(Put(@.f, id, data))]

Request(kind, id, idx) == [kind |-> kind, id |-> id, idx |-> idx]

\* The running call is resumed by the answer to its last request, handles it,
\* and either issues request r and suspends at p, or ends at p.
\* The console line that reports the answer to request req: the check mark
\* of lines 59, 71, 83, 106, 118, 130 or the cross of lines 61, 73, 95, 108,
\* 120, 132. A success line that reads a property of a null body throws
\* inside the try, so the cross is printed instead. The streams try of lines
\* 86-93 prints nothing either way.
Logged(req, resp) ==
    LET printed ==
            /\ resp.ok
            /\ req.kind = "athlete" => resp.data.t \notin {"null", "undefined"}
            /\ req.kind \in {"activities", "events", "wellness"} => resp.data.t = "array"
    IN  IF req.kind = "streams" THEN <<>>
        ELSE << [kind |-> req.kind, id |-> req.id, idx |-> req.idx, ok |-> printed] >>

Answered(resp) ==
    /\ responses' = Append(responses, resp)
    /\ log' = log \o Logged(requests[Len(requests)], resp)

\* Continue that issues request r while the previous one is still awaited.
Continue_NoAwait(p, i, r) ==
    /\ pc' = p
    /\ loopIdx' = i
    /\ requests' = Append(requests, r)
    /\ inflight' = inflight \cup {Len(requests) + 1}

Continue(p, i, r) ==
    /\ pc' = p
    /\ loopIdx' = i
    /\ requests' = Append(requests, r)
    /\ inflight' = (inflight \ {Len(requests)}) \cup {Len(requests) + 1}

Finish(p) ==
    /\ pc' = p
    /\ requests' = requests
    /\ inflight' = inflight \ {Len(requests)}
    /\ UNCHANGED loopIdx

\* The step after activity i of the loop of lines 79-97: the next activity's
\* detail request, or the calendar-events request of line 102.
AfterActivity(res, i) ==
    IF i < Len(res.activities.items)
    THEN Continue("detail", i + 1, Request("detail", res.activities.items[i + 1].id, i + 1))
    ELSE Continue("events", 0, Request("events", ResolvedId(res, athleteId), 0))

\* Lines 39-56: downloadAllData up to its first await.
Start ==
    /\ pc = "start"
    /\ result' = EmptyResult
    /\ pc' = "athlete"
    /\ requests' = Append(requests, Request("athlete", athleteId, 0))
    /\ inflight' = inflight \cup {Len(requests) + 1}
    /\ UNCHANGED <<athleteId, loopIdx, responses, log, cfgVars, cliVars, saveVars, summary>>

\* Lines 56-68: the athlete answer, then the activities request.
OnAthlete ==
    /\ pc = "athlete"
    /\ \E resp \in AthleteResponses :
        LET res == Assign(result, "athlete", resp) IN
        /\ Answered(resp)
        /\ result' = res
        /\ Continue("activities", 0, Request("activities", ResolvedId(res, athleteId), 0))
    /\ UNCHANGED <<athleteId, cfgVars, cliVars, saveVars, summary>>

\* Lines 68-81 (or 102): the activities answer, then the start of the loop.
\* `for (const activity of result.activities)` throws outside every try when
\* result.activities is not iterable: downloadAllData rejects.
OnActivities ==
    /\ pc = "activities"
    /\ \E resp \in ActivitiesResponses :
        LET res == Assign(result, "activities", resp) IN
        /\ Answered(resp)
        /\ result' = res
        /\ IF res.activities.t # "array" THEN Finish("rejected")
           ELSE AfterActivity(res, 0)
    /\ UNCHANGED <<athleteId, cfgVars, cliVars, saveVars, summary>>

\* OnDetail with the streams try placed after the detail try, not inside it.
OnDetail_StreamsAlways ==
    /\ pc = "detail"
    /\ \E ok \in BOOLEAN :
        LET activity == result.activities.items[loopIdx]
            resp     == IF ok THEN Ok(DetailOf(activity)) ELSE Failure
            res      == IF ok THEN PushDetail(result, resp.data) ELSE result
        IN  /\ Answered(resp)
            /\ result' = res
            /\ Continue("streams", loopIdx, Request("streams", activity.id, loopIdx))
    /\ UNCHANGED <<athleteId, cfgVars, cliVars, saveVars, summary>>

\* Lines 81-87 and 94-96: the detail answer of activity loopIdx.
OnDetail ==
    /\ pc = "detail"
    /\ \E ok \in BOOLEAN :
        LET activity == result.activities.items[loopIdx]
            resp     == IF ok THEN Ok(DetailOf(activity)) ELSE Failure
            res      == IF ok THEN PushDetail(result, resp.data) ELSE result
        IN  /\ Answered(resp)
            /\ result' = res
            /\ IF ok THEN Continue("streams", loopIdx, Request("streams", activity.id, loopIdx))
               ELSE AfterActivity(res, loopIdx)
    /\ UNCHANGED <<athleteId, cfgVars, cliVars, saveVars, summary>>

\* Lines 87-93: the streams answer of activity loopIdx.
OnStreams ==
    /\ pc = "streams"
    /\ \E ok \in BOOLEAN :
        LET activity == result.activities.items[loopIdx]
            resp     == IF ok THEN Ok(StreamsOf(activity.id)) ELSE Failure
            res      == IF ok THEN PutStreams(result, activity.id, resp.data) ELSE result
        IN  /\ Answered(resp)
            /\ result' = res
            /\ AfterActivity(res, loopIdx)
    /\ UNCHANGED <<athleteId, cfgVars, cliVars, saveVars, summary>>

\* Lines 102-114: the calendar-events answer, then the wellness request.
OnEvents ==
    /\ pc = "events"
    /\ \E resp \in EventsResponses :
        LET res == Assign(result, "calendarEvents", resp) IN
        /\ Answered(resp)
        /\ result' = res
        /\ Continue("wellness", 0, Request("wellness", ResolvedId(res, athleteId), 0))
    /\ UNCHANGED <<athleteId, cfgVars, cliVars, saveVars, summary>>

\* Lines 114-126: the wellness answer, then the power-curve request.
OnWellness ==
    /\ pc = "wellness"
    /\ \E resp \in WellnessResponses :
        LET res == Assign(result, "wellness", resp) IN
        /\ Answered(resp)
        /\ result' = res
        /\ Continue("power", 0, Request("power", ResolvedId(res, athleteId), 0))
    /\ UNCHANGED <<athleteId, cfgVars, cliVars, saveVars, summary>>

\* Lines 126-135: the power-curve answer, then `return result`.
OnPower ==
    /\ pc = "power"
    /\ \E resp \in PowerResponses :
        /\ Answered(resp)
        /\ result' = Assign(result, "powerCurve", resp)
        /\ Finish("returned")
    /\ UNCHANGED <<athleteId, cfgVars, cliVars, saveVars, summary>>

-----------------------------------------------------------------------------
(* Persistence: src/unnamed/part_000, saveData                             *)

\* Bounds of the persistence model.
MaxTicks == 2      \* milliseconds the clock advances in a run
MaxSaves == 2      \* saveData calls in one process

\* The clock starts two milliseconds before a full second.
ClockStart == 58998

DATA_DIR == "../data"

Digits == <<"0", "1", "2", "3", "4", "5", "6", "7", "8", "9">>
Digit(n) == Digits[n + 1]

\* new Date().toISOString() for a time ms milliseconds into the minute:
\* YYYY-MM-DDTHH:mm:ss.sssZ, as tokens.
toISOString(ms) ==
    LET sec == (ms \div 1000) % 60
        mil == ms % 1000
    IN  <<"2026-01-01T10", ":", "30", ":",
          Digit(sec \div 10), Digit(sec % 10), ".",
          Digit(mil \div 100), Digit((mil \div 10) % 10), Digit(mil % 10), "Z">>

\* .replace(/[:.]/g, '-')
ReplaceColonDot(s) ==
    [i \in 1..Len(s) |-> IF s[i] \in {":", "."} THEN "-" ELSE s[i]]

Alnum == {"a", "b", "e", "m", "0", "1"}

\* name.replace(/[^a-zA-Z0-9]/g, '-')
SafeName(name) ==
    [i \in 1..Len(name) |-> IF name[i] \in Alnum THEN name[i] ELSE "-"]

\* Lines 143-145: path.join(DATA_DIR, `${safeName}-${timestamp}`)
SubDir(name, ms) ==
    <<DATA_DIR, "/">> \o SafeName(name) \o <<"-">> \o ReplaceColonDot(toISOString(ms))

\* JSON.stringify(value, null, 2): the text that stands for the value
Stringify(v) == [json |-> v]

\* Lines 148-159: the text each writeFileSync call is given, by file name.
Contents(data) ==
    [n \in {"athlete.json", "activities-list.json", "activities-detailed.json",
            "calendar-events.json", "wellness.json", "power-curve.json",
            "activity-streams.json", "all-data.json"} |->
        CASE n = "athlete.json"             -> Stringify(data.athlete)
          [] n = "activities-list.json"     -> Stringify(data.activities)
          [] n = "activities-detailed.json" -> Stringify(data.activityDetails)
          [] n = "calendar-events.json"     -> Stringify(data.calendarEvents)
          [] n = "wellness.json"            -> Stringify(data.wellness)
          [] n = "power-curve.json"         -> Stringify(data.powerCurve)
          [] n = "activity-streams.json"    -> Stringify(data.streams)
          [] n = "all-data.json"            -> Stringify(data)]

\* WriteOrder that writes the activity-streams file whatever streams holds.
WriteOrder_AlwaysStreams(data) ==
    <<"athlete.json", "activities-list.json", "activities-detailed.json",
      "calendar-events.json", "wellness.json", "power-curve.json",
      "activity-streams.json", "all-data.json">>

\* Lines 148-159: the order of the fs.writeFileSync calls of one saveData.
WriteOrder(data) ==
    <<"athlete.json", "activities-list.json", "activities-detailed.json",
      "calendar-events.json", "wellness.json", "power-curve.json">>
    \o (IF DOMAIN data.streams.f # {} THEN <<"activity-streams.json">> ELSE <<>>)
    \o <<"all-data.json">>

\* Lines 148-159: the files a call that returns has written, name -> content.
FilesWritten(data) ==
    [n \in {WriteOrder(data)[i] : i \in 1..Len(WriteOrder(data))} |-> Contents(data)[n]]

\* fs.mkdirSync(subDir, {recursive: true}) keeps a directory that exists;
\* fs.writeFileSync replaces a file that exists.
WriteAll(dsk, dir, written) ==
    LET old == IF dir \in DOMAIN dsk THEN dsk[dir] ELSE NoFields
    IN  Put(dsk, dir,
            [n \in DOMAIN old \cup DOMAIN written |->
                IF n \in DOMAIN written THEN written[n] ELSE old[n]])

\* saveData(data, name): lines 138-163. fs.writeFileSync throws when the
\* file system refuses the write; nothing in saveData catches it, so the
\* files written before it stay and the call does not return. n is the
\* number of writes the file system accepts during this call.
saveData(data, name, n) ==
    LET dir      == SubDir(name, clock)
        order    == WriteOrder(data)
        returned == n = Len(order)
        written  == [f \in {order[i] : i \in 1..n} |-> Contents(data)[f]]
    IN  /\ disk' = WriteAll(disk, dir, written)
        /\ saveLog' = IF returned THEN Append(saveLog, dir) ELSE saveLog
        /\ saveOps' = Append(saveOps, [dir |-> dir, wrote |-> SubSeq(order, 1, n),
                                       returned |-> returned])
        /\ UNCHANGED clock

\* The names a run may be given: args[1] || 'me'.
Names == { <<"m", "e">>, <<"a", " ", "b">>, <<"a", "-", "b">> }

-----------------------------------------------------------------------------
(* Summary: src/unnamed/part_000, generateSummary                          *)

\* Bounds of the summary model.
MaxSummaryActs == 2    \* activities of a summarised result

\* activity.type || 'Unknown'
TypeOf(a) == OrElse(a.type, "Unknown")

\* Lines 180-185: the keys of byType, in the order they are first inserted.
RECURSIVE TypesOf(_)
TypesOf(acts) ==
    IF acts = <<>> THEN <<>>
    ELSE LET rest == TypesOf(SubSeq(acts, 1, Len(acts) - 1))
             type == TypeOf(acts[Len(acts)])
         IN  IF \E i \in 1..Len(rest) : rest[i] = type THEN rest
             ELSE Append(rest, type)

\* byType[type]
Members(acts, type) == SelectSeq(acts, LAMBDA a : TypeOf(a) = type)

\* activities.reduce((sum, a) => sum + (a.distance || 0), 0)
RECURSIVE TotalDistance(_)
TotalDistance(acts) ==
    IF acts = <<>> THEN 0 ELSE Head(acts).distance + TotalDistance(Tail(acts))

\* activities.reduce((sum, a) => sum + (a.moving_time || 0), 0)
RECURSIVE TotalTime(_)
TotalTime(acts) ==
    IF acts = <<>> THEN 0 ELSE Head(acts).moving_time + TotalTime(Tail(acts))

\* The totals m (metres, below 31000) ending in 50 for which the double m / 1000
\* lies below the decimal m / 1000, so that toFixed(1) rounds them down.
TiesRoundedDown ==
    { 150, 350, 850, 950, 1150, 1450, 1650, 1950, 2050, 2150, 2550, 2650,
      3050, 3150, 3550, 3650, 4050, 4350, 4550, 4850, 5050, 5350, 5550, 5850,
      6050, 6350, 6550, 6850, 7050, 7350, 7550, 7850, 8350, 8450, 8850, 8950,
      9350, 9450, 9850, 9950, 10350, 10450, 10850, 10950, 11350, 11450, 11850, 11950,
      12350, 12450, 12850, 12950, 13350, 13450, 13850, 13950, 14350, 14450, 14850, 14950,
      15350, 15450, 15850, 15950, 16150, 16450, 16650, 16950, 17150, 17450, 17650, 17950,
      18150, 18450, 18650, 18950, 19150, 19450, 19650, 19950, 20150, 20450, 20650, 20950,
      21150, 21450, 21650, 21950, 22150, 22450, 22650, 22950, 23150, 23450, 23650, 23950,
      24150, 24450, 24650, 24950, 25150, 25450, 25650, 25950, 26150, 26450, 26650, 26950,
      27150, 27450, 27650, 27950, 28150, 28450, 28650, 28950, 29150, 29450, 29650, 29950,
      30150, 30450, 30650, 30950 }

\* (metres / 1000).toFixed(1), as the number of tenths of a km it prints.
ToFixed1(metres) ==
    LET low == metres \div 100
        rem == metres % 100
    IN  IF rem < 50 \/ (rem = 50 /\ metres \in TiesRoundedDown) THEN low ELSE low + 1

\* GroupLine printing the whole total as minutes, without `% 3600`.
GroupLine_AllMinutes(acts, type) ==
    LET members       == Members(acts, type)
        totalDistance == TotalDistance(members)
        totalTime     == TotalTime(members)
    IN  [type    |-> type,
         count   |-> Len(members),
         km      |-> ToFixed1(totalDistance) \div 10,
         tenth   |-> ToFixed1(totalDistance) % 10,
         hours   |-> totalTime \div 3600,
         minutes |-> totalTime \div 60]

\* Line 190: the line printed for one type.
GroupLine(acts, type) ==
    LET members       == Members(acts, type)
        totalDistance == TotalDistance(members)
        totalTime     == TotalTime(members)
    IN  [type    |-> type,
         count   |-> Len(members),
         km      |-> ToFixed1(totalDistance) \div 10,
         tenth   |-> ToFixed1(totalDistance) % 10,
         hours   |-> totalTime \div 3600,
         minutes |-> (totalTime % 3600) \div 60]

\* Line 181: data.activityDetails.length ? data.activityDetails : data.activities
SummarySource(data) ==
    IF Len(data.activityDetails.items) # 0 THEN data.activityDetails.items
    ELSE data.activities.items

\* generateSummary(data): what it prints; threw when `.length` of a null list
\* field raises a TypeError (lines 178, 193, 194).
generateSummary(data) ==
    LET source == SummarySource(data)
        types  == TypesOf(source)
        groups == [i \in 1..Len(types) |-> GroupLine(source, types[i])]
    IN  IF data.activities.t # "array"
        THEN [ran |-> TRUE, threw |-> TRUE, groups |-> <<>>]
        ELSE IF data.calendarEvents.t # "array" \/ data.wellness.t # "array"
        THEN [ran |-> TRUE, threw |-> TRUE, groups |-> groups]
        ELSE [ran |-> TRUE, threw |-> FALSE, groups |-> groups,
              events   |-> Len(data.calendarEvents.items),
              wellness |-> Len(data.wellness.items),
              streams  |-> Cardinality(DOMAIN data.streams.f)]

NotRun == [ran |-> FALSE]

-----------------------------------------------------------------------------
(* main of the download script: lines 199-213 of part_000.                 *)

\* Line 202, after `await downloadAllData()` resolved. A write that throws
\* is caught by the catch of line 207.
MainSave ==
    /\ pc = "returned"
    /\ \E name \in Names, n \in 0..Len(WriteOrder(result)) :
        /\ saveData(result, name, n)
        /\ pc' = IF n = Len(WriteOrder(result)) THEN "saved" ELSE "threw"
    /\ UNCHANGED <<athleteId, loopIdx, result, requests, responses, inflight, log, summary, cfgVars, cliVars>>

\* Lines 203-206: generateSummary, then the FOLDER_PATH line.
MainSummary ==
    /\ pc = "saved"
    /\ summary' = generateSummary(result)
    /\ pc' = IF summary'.threw THEN "threw" ELSE "done"
    /\ UNCHANGED <<athleteId, loopIdx, result, requests, responses, inflight, log, saveVars, cfgVars, cliVars>>

\* Lines 207-210: the catch of main: 'Fatal error', process.exit(1).
MainCatch ==
    /\ pc \in {"rejected", "threw"}
    /\ pc' = "exit1"
    /\ UNCHANGED <<athleteId, loopIdx, result, requests, responses, inflight, log, saveVars, summary, cfgVars, cliVars>>

-----------------------------------------------------------------------------
(* Command-line interface: src/unnamed/part_002, lines 26-259               *)

DefaultOrigin == "https://intervals.icu/api/v1"

\* IntervalsClient.constructor, lines 28-42: the origin the client sends to.
ClientOrigin(config) == OrElse(config.baseUrl, DefaultOrigin)

\* The texts given to the CLI as the --json argument or on standard input.
JsonTexts ==
    { "", " ", "{", "null", "{}",
      "{\"athleteId\":\"i5\"}",
      "{\"workout\":\"w\"}",
      "{\"eventId\":\"e9\"}",
      "{\"eventId\":\"\"}",
      "{\"athleteId\":\"i5\",\"workout\":\"w\",\"eventId\":\"e9\"}" }

Parsed(v) == [ok |-> TRUE, value |-> v]

\* JSON.parse on the texts above; every other text is a SyntaxError.
JSONparse(text) ==
    CASE text = "null" -> Parsed(JNull)
      [] text = "{}"   -> Parsed(JObject(NoFields))
      [] text = "{\"athleteId\":\"i5\"}" -> Parsed(JObject([athleteId |-> "i5"]))
      [] text = "{\"workout\":\"w\"}"    -> Parsed(JObject([workout |-> "w"]))
      [] text = "{\"eventId\":\"e9\"}"   -> Parsed(JObject([eventId |-> "e9"]))
      [] text = "{\"eventId\":\"\"}"     -> Parsed(JObject([eventId |-> ""]))
      [] text = "{\"athleteId\":\"i5\",\"workout\":\"w\",\"eventId\":\"e9\"}" ->
            Parsed(JObject([athleteId |-> "i5", workout |-> "w", eventId |-> "e9"]))
      [] OTHER -> [ok |-> FALSE, message |-> "Unexpected end of JSON input"]

\* stdin.trim().length > 0
NotBlank(text) == text \notin {"", " "}

\* parseInput(args, stdin): lines 159-168.
parseInput(a, stdin) ==
    IF a.json /\ Truthy(a.jsonArg) THEN JSONparse(a.jsonArg)
    ELSE IF Truthy(stdin) /\ NotBlank(stdin) THEN JSONparse(stdin)
    ELSE Parsed(JObject(NoFields))

\* output with a data field on the failure payload as well.
output_AlwaysData(ok, data, error) ==
    IF ok THEN [ok |-> TRUE, data |-> IF data.t = "undefined" THEN JNull ELSE data]
    ELSE [ok |-> FALSE, data |-> JNull, error |-> OrElse(error, "Unknown error")]

\* output(ok, data, error): lines 170-175, the payload given to
\* JSON.stringify; `data ?? null` turns undefined into null.
output(ok, data, error) ==
    IF ok THEN [ok |-> TRUE, data |-> IF data.t = "undefined" THEN JNull ELSE data]
    ELSE [ok |-> FALSE, error |-> OrElse(error, "Unknown error")]

HelpData ==
    JObject([commands |-> "get-athlete,get-activities,get-calendar-events,upload-workout,delete-event",
             input |-> "JSON via stdin or --json"])

Throw(msg) == [throw |-> TRUE, message |-> msg]
Send(kind, id) == [throw |-> FALSE, request |-> Request(kind, id, 0)]

\* The switch of lines 207-254 that sends upload-workout and delete-event
\* without looking at the payload.
Dispatch_NoPayloadCheck(command, input) ==
    IF command \notin {"get-athlete", "get-activities", "get-calendar-events",
                       "upload-workout", "delete-event"}
    THEN Throw("Unknown command")
    ELSE IF input.t # "object"
    THEN Throw("Cannot read properties of null (reading 'athleteId')")
    ELSE LET id == OrElse(Get(input.f, "athleteId"), "me") IN
         CASE command = "get-athlete"         -> Send("getAthlete", id)
           [] command = "get-activities"      -> Send("getActivities", id)
           [] command = "get-calendar-events" -> Send("getCalendarEvents", id)
           [] command = "upload-workout"      -> Send("uploadWorkout", id)
           [] command = "delete-event"        -> Send("deleteEvent", id)

\* The switch of lines 207-254: the request the command sends, or the error
\* thrown before any request. Reading input.athleteId of a null input throws.
Dispatch(command, input) ==
    IF command \notin {"get-athlete", "get-activities", "get-calendar-events",
                       "upload-workout", "delete-event"}
    THEN Throw("Unknown command")
    ELSE IF input.t # "object"
    THEN Throw("Cannot read properties of null (reading 'athleteId')")
    ELSE LET id == OrElse(Get(input.f, "athleteId"), "me") IN
         CASE command = "get-athlete"         -> Send("getAthlete", id)
           [] command = "get-activities"      -> Send("getActivities", id)
           [] command = "get-calendar-events" -> Send("getCalendarEvents", id)
           [] command = "upload-workout"      ->
                IF ~Truthy(Get(input.f, "workout")) THEN Throw("Missing workout payload")
                ELSE Send("uploadWorkout", id)
           [] command = "delete-event"        ->
                IF ~Truthy(Get(input.f, "eventId")) THEN Throw("Missing eventId")
                ELSE Send("deleteEvent", id)

\* Lines 255-258, the catch of main: err?.message || String(err).
Catch(message) ==
    /\ stdout' = Append(stdout, output(FALSE, JNull, OrElse(message, "Error")))
    /\ exitCode' = 1
    /\ pc' = "cli_end"

\* Lines 203-254, after the input text was parsed: loadConfig, the client,
\* the switch up to its await.
Proceed(parsed) ==
    IF ~parsed.ok
    THEN /\ Catch(parsed.message)
         /\ UNCHANGED <<cfgVars, requests, inflight>>
    ELSE LET config == loadConfig(env, files)
             d      == Dispatch(argv.command, parsed.value)
         IN  /\ envBefore' = env
             /\ env' = Hydrated(env, files)
             /\ cfg' = config
             /\ calls' = calls + 1
             /\ UNCHANGED files
             /\ IF config.status = "error"
                THEN Catch(config.message) /\ UNCHANGED <<requests, inflight>>
                ELSE IF d.throw
                THEN Catch(d.message) /\ UNCHANGED <<requests, inflight>>
                ELSE /\ requests' = Append(requests, d.request)
                     /\ inflight' = {Len(requests) + 1}
                     /\ pc' = "cli_wait"
                     /\ UNCHANGED <<stdout, exitCode>>

\* Lines 181-193: no command, help or --help.
CliHelp ==
    /\ pc = "cli_start"
    /\ ~Truthy(argv.command) \/ argv.command \in {"help", "--help"}
    /\ stdout' = Append(stdout, output(TRUE, HelpData, undefined))
    /\ pc' = "cli_end"
    /\ UNCHANGED <<cfgVars, athleteId, loopIdx, result, requests, responses, inflight,
                   log, saveVars, summary, argv, exitCode>>

\* Lines 195-198: the input comes from the --json argument.
CliJson ==
    /\ pc = "cli_start"
    /\ Truthy(argv.command) /\ argv.command \notin {"help", "--help"}
    /\ argv.json
    /\ Proceed(parseInput(argv, undefined))
    /\ UNCHANGED <<athleteId, loopIdx, result, responses, log, saveVars, summary, argv>>

\* Lines 199-200: `await readStdin()`.
CliReadStdin ==
    /\ pc = "cli_start"
    /\ Truthy(argv.command) /\ argv.command \notin {"help", "--help"}
    /\ ~argv.json
    /\ pc' = "cli_stdin"
    /\ UNCHANGED <<cfgVars, athleteId, loopIdx, result, requests, responses, inflight,
                   log, saveVars, summary, cliVars>>

\* Lines 144-157 and 201: standard input ended (or is a terminal).
CliStdinEnd ==
    /\ pc = "cli_stdin"
    /\ Proceed(parseInput(argv, argv.stdin))
    /\ UNCHANGED <<athleteId, loopIdx, result, responses, log, saveVars, summary, argv>>

Rejected(msg) == [ok |-> FALSE, message |-> msg]

CliResponses ==
    { Rejected("Request failed with status code 404"), Rejected(""),
      Ok(JUndefined), Ok(JNull), Ok(JObject([id |-> "i5"])) }

\* The answer to the request of the command: output(true, data), or the catch.
CliResponse ==
    /\ pc = "cli_wait"
    /\ \E resp \in CliResponses :
        /\ responses' = Append(responses, resp)
        /\ IF resp.ok
           THEN /\ stdout' = Append(stdout, output(TRUE, resp.data, undefined))
                /\ pc' = "cli_end"
                /\ UNCHANGED exitCode
           ELSE Catch(resp.message)
    /\ inflight' = {}
    /\ UNCHANGED <<cfgVars, athleteId, loopIdx, result, requests, log, saveVars,
                   summary, argv>>

-----------------------------------------------------------------------------
(* Values the variables of a subsystem rest at under another's specification *)

ConfigIdle ==
    /\ env = NoFields /\ files = NoFields /\ cfg = NoCfg
    /\ envBefore = NoFields /\ calls = 0

DownloadIdle ==
    /\ athleteId = "me" /\ pc = "idle" /\ loopIdx = 0 /\ result = EmptyResult
    /\ requests = <<>> /\ responses = <<>> /\ inflight = {} /\ log = <<>>

SaveIdle ==
    /\ clock = ClockStart /\ disk = NoFields /\ saveLog = <<>> /\ saveOps = <<>>

CliIdle == argv = NoFields /\ stdout = <<>> /\ exitCode = 0

-----------------------------------------------------------------------------
(* SpecConfig: a process that calls loadConfig() up to MaxCalls times.     *)

InitConfig ==
    /\ env \in EnvChoices
    /\ files \in FileSystems
    /\ cfg = NoCfg
    /\ envBefore = env
    /\ calls = 0
    /\ DownloadIdle /\ SaveIdle /\ summary = NotRun /\ CliIdle

\* loadConfig(): lines 29-64 of config.ts, the hydration included.
LoadConfig ==
    /\ calls < MaxCalls
    /\ envBefore' = env
    /\ env' = Hydrated(env, files)
    /\ cfg' = loadConfig(env, files)
    /\ calls' = calls + 1
    /\ UNCHANGED <<files, dlVars, saveVars, summary, cliVars>>

NextConfig == LoadConfig

SpecConfig == InitConfig /\ [][NextConfig]_vars

-----------------------------------------------------------------------------
(* SpecDownload: one run of the download script for one athlete.           *)

InitDownload ==
    /\ athleteId \in AthleteIds
    /\ pc = "start"
    /\ loopIdx = 0
    /\ result = EmptyResult
    /\ requests = <<>> /\ responses = <<>> /\ inflight = {} /\ log = <<>>
    /\ ConfigIdle /\ SaveIdle /\ summary = NotRun /\ CliIdle

NextDownload ==
    \/ Start \/ OnAthlete \/ OnActivities \/ OnDetail \/ OnStreams
    \/ OnEvents \/ OnWellness \/ OnPower
    \/ MainSave \/ MainSummary \/ MainCatch

SpecDownload == InitDownload /\ [][NextDownload]_vars

Spec == SpecDownload

-----------------------------------------------------------------------------
(* SpecSave: a process that calls saveData up to MaxSaves times while the  *)
(* clock runs.                                                             *)

SaveInputs ==
    { EmptyResult,
      [EmptyResult EXCEPT !.streams = JObject([a1 |-> StreamsOf("a1")])] }

InitSave ==
    /\ result \in SaveInputs
    /\ clock = ClockStart
    /\ disk = NoFields
    /\ saveLog = <<>>
    /\ saveOps = <<>>
    /\ athleteId = "me" /\ pc = "idle" /\ loopIdx = 0
    /\ requests = <<>> /\ responses = <<>> /\ inflight = {} /\ log = <<>>
    /\ ConfigIdle /\ summary = NotRun /\ CliIdle

\* A millisecond passes.
Tick ==
    /\ clock < ClockStart + MaxTicks
    /\ clock' = clock + 1
    /\ UNCHANGED <<disk, saveLog, saveOps, cfgVars, cliVars, dlVars, summary>>

SaveCall ==
    /\ Len(saveOps) < MaxSaves
    /\ \E name \in Names, n \in 0..Len(WriteOrder(result)) : saveData(result, name, n)
    /\ UNCHANGED <<cfgVars, cliVars, dlVars, summary>>

NextSave == Tick \/ SaveCall

SpecSave == InitSave /\ [][NextSave]_vars

-----------------------------------------------------------------------------
(* SpecSummary: generateSummary applied to a downloaded result.            *)

SummaryTypes == {"Run", "Ride", undefined}
SummaryActivities ==
    { Activity("a", type, m[1], m[2], "list") :
        type \in SummaryTypes,
        m \in {<<0, 0>>, <<150, 59>>, <<5000, 1800>>, <<10000, 3600>>} }

\* The entries of acts at the indexes of keep, in order.
RECURSIVE Sub(_, _)
Sub(acts, keep) ==
    IF acts = <<>> THEN <<>>
    ELSE LET rest == Sub(SubSeq(acts, 1, Len(acts) - 1), keep)
         IN  IF Len(acts) \in keep THEN Append(rest, acts[Len(acts)]) ELSE rest

DetailsOf(acts) == [i \in 1..Len(acts) |-> DetailOf(acts[i])]

\* A result as downloadAllData builds it: details of some of its activities.
SummaryInputs ==
    { [EmptyResult EXCEPT !.activities = JArray(acts),
                          !.activityDetails = JArray(DetailsOf(Sub(acts, keep)))] :
        acts \in SeqsUpTo(SummaryActivities, MaxSummaryActs),
        keep \in SUBSET (1..MaxSummaryActs) }

InitSummary ==
    /\ result \in SummaryInputs
    /\ summary = NotRun
    /\ athleteId = "me" /\ pc = "idle" /\ loopIdx = 0
    /\ requests = <<>> /\ responses = <<>> /\ inflight = {} /\ log = <<>>
    /\ ConfigIdle /\ SaveIdle /\ CliIdle

Summarize ==
    /\ summary = NotRun
    /\ summary' = generateSummary(result)
    /\ UNCHANGED <<cfgVars, cliVars, dlVars, saveVars>>

NextSummary == Summarize

SpecSummary == InitSummary /\ [][NextSummary]_vars

-----------------------------------------------------------------------------
(* SpecCli: one run of the command-line interface.                         *)

CliCommands ==
    { undefined, "help", "--help", "get-athlete", "get-activities",
      "get-calendar-events", "upload-workout", "delete-event", "sync" }

CliArgs ==
    { [command |-> c, json |-> TRUE, jsonArg |-> a, stdin |-> ""] :
        c \in CliCommands, a \in JsonTexts \cup {undefined} }
    \cup
    { [command |-> c, json |-> FALSE, jsonArg |-> undefined, stdin |-> t] :
        c \in CliCommands, t \in JsonTexts }

CliEnvs == { e \in EnvChoices : DOMAIN e \subseteq {API_KEY_VAR} }

CliFileSystems ==
    { fs \in FileSystems :
        /\ fs[AltEnvFile] = Absent /\ fs[AltConfigPath] = Absent
        /\ fs[DefaultEnvFile].kind = "text" => Len(fs[DefaultEnvFile].lines) = 1 }

InitCli ==
    /\ argv \in CliArgs
    /\ env \in CliEnvs
    /\ files \in CliFileSystems
    /\ cfg = NoCfg /\ envBefore = env /\ calls = 0
    /\ pc = "cli_start"
    /\ athleteId = "me" /\ loopIdx = 0 /\ result = EmptyResult
    /\ requests = <<>> /\ responses = <<>> /\ inflight = {} /\ log = <<>>
    /\ stdout = <<>> /\ exitCode = 0
    /\ SaveIdle /\ summary = NotRun

NextCli == CliHelp \/ CliJson \/ CliReadStdin \/ CliStdinEnd \/ CliResponse

SpecCli == InitCli /\ [][NextCli]_vars

-----------------------------------------------------------------------------
(* Claims about the configuration resolver, checked under SpecConfig.      *)

\* What the env file consulted by the last call defines when read on its own.
EnvFileAlone ==
    loadEnvFile(NoFields, files, OrElse(Get(envBefore, ENV_FILE_VAR), DefaultEnvFile))

\* The config file a call consults once the environment is hydrated.
ConfigFile == files[OrElse(Get(env, CONFIG_PATH_VAR), DefaultConfigPath)]

\* C1: loadConfig returns the API key of the highest-precedence source holding
\* a non-empty key (environment > env file > config file), and no apiKey or
\* baseUrl of a lower-precedence source appears in what it returns.
C1_HighestPrecedenceSourceOnly ==
    calls >= 1 =>
        IF Truthy(Get(envBefore, API_KEY_VAR))
        THEN /\ cfg.status = "ok"
             /\ cfg.apiKey = Get(envBefore, API_KEY_VAR)
             /\ cfg.baseUrl = Get(envBefore, BASE_URL_VAR)
        ELSE IF Truthy(Get(EnvFileAlone, API_KEY_VAR))
        THEN /\ cfg.status = "ok"
             /\ cfg.apiKey = Get(EnvFileAlone, API_KEY_VAR)
             /\ cfg.baseUrl \in {Get(envBefore, BASE_URL_VAR),
                                 Get(EnvFileAlone, BASE_URL_VAR), undefined}
        ELSE cfg = ResolveFromFile(env, files)

\* C2: every variable set in the environment before loadConfig is called has
\* the same value after the call, whatever the env file contains.
C2_PresetVariablesKept ==
    calls >= 1 =>
        \A v \in DOMAIN envBefore : v \in DOMAIN env /\ env[v] = envBefore[v]

\* C3: loadConfig never returns an empty or absent apiKey, and with no API key
\* in the (hydrated) environment and no config file it fails with the
\* configuration error.
C3_NoEmptyCredential ==
    calls >= 1 =>
        /\ cfg.status = "ok" => (cfg.apiKey # "" /\ cfg.apiKey # undefined)
        /\ (~Truthy(Get(env, API_KEY_VAR)) /\ ConfigFile.kind = "absent") =>
               (cfg.status = "error" /\ cfg.message = NotFoundMessage)

C3_Witness ==
    /\ calls >= 1
    /\ files[DefaultEnvFile].kind = "text"
    /\ API_KEY_VAR \in DOMAIN env /\ env[API_KEY_VAR] = ""
    /\ ConfigFile.kind = "absent"
    /\ cfg.status = "error"

\* C4: with no API key from the environment and a config file whose
\* intervalsIcu object has no apiKey (absent or empty), loadConfig fails with
\* the error naming the missing field, which is not the error of a missing file.
C4_MissingKeyError ==
    (/\ calls >= 1
     /\ ~Truthy(Get(env, API_KEY_VAR))
     /\ ConfigFile.kind = "json"
     /\ OptField(ConfigFile.value, "intervalsIcu").t = "object"
     /\ ~Truthy(OptString(OptField(ConfigFile.value, "intervalsIcu"), "apiKey")))
    => /\ cfg.status = "error"
       /\ cfg.message = MissingKeyMessage
       /\ cfg.message # Thrown(NotFoundMessage, DefaultConfigPath).message

C4_Witness ==
    /\ calls >= 1
    /\ cfg.status = "error"
    /\ cfg.message = MissingKeyMessage
    /\ ConfigFile.kind = "json"
    /\ OptField(ConfigFile.value, "intervalsIcu").t = "object"
    /\ "apiKey" \in DOMAIN OptField(ConfigFile.value, "intervalsIcu").f

-----------------------------------------------------------------------------
(* Claims about downloadAllData, checked under SpecDownload.               *)

\* The positions of the answered requests of a kind.
AnsweredOf(kind) == {i \in 1..Len(responses) : requests[i].kind = kind}

\* The answer to the one request of a kind that is issued once per run.
Answer(kind) == responses[CHOOSE i \in AnsweredOf(kind) : TRUE]

\* The loop indexes of the activities whose request of a kind succeeded.
OkIdx(kind) == {requests[i].idx : i \in {j \in AnsweredOf(kind) : responses[j].ok}}

\* The field holds what its fetch returned, or its default when the fetch failed.
FetchedOrDefault(field, kind, default) ==
    result[field] = IF Answer(kind).ok THEN Answer(kind).data ELSE default

AthleteScoped == {"activities", "events", "wellness", "power"}

\* C5: downloadAllData never fails as a whole: whichever fetches fail, it
\* returns a result with all seven fields, each holding the fetched data or,
\* when its fetch failed, its default.
C5_NeverFailsAsAWhole ==
    /\ pc # "rejected"
    /\ pc = "returned" =>
        /\ DOMAIN result = {"athlete", "activities", "activityDetails",
                            "calendarEvents", "wellness", "powerCurve", "streams"}
        /\ FetchedOrDefault("athlete", "athlete", JNull)
        /\ FetchedOrDefault("activities", "activities", JArray(<<>>))
        /\ FetchedOrDefault("calendarEvents", "events", JArray(<<>>))
        /\ FetchedOrDefault("wellness", "wellness", JArray(<<>>))
        /\ FetchedOrDefault("powerCurve", "power", JNull)
        /\ Len(result.activityDetails.items) = Cardinality(OkIdx("detail"))

\* C6: in the returned result activityDetails lists the fetched details in the
\* order of the activities of the list fetch, and the keys of streams are
\* exactly the ids of the activities whose streams fetch succeeded.
C6_DetailOrderAndStreamKeys ==
    pc = "returned" =>
        LET acts == result.activities.items IN
        /\ result.activityDetails.items = DetailsOf(Sub(acts, OkIdx("detail")))
        /\ DOMAIN result.streams.f = {acts[i].id : i \in OkIdx("streams")}

C6_Witness ==
    /\ pc = "returned"
    /\ Len(result.activities.items) = 2
    /\ result.activities.items[1] # result.activities.items[2]
    /\ Len(result.activityDetails.items) = 2
    /\ Cardinality(DOMAIN result.streams.f) = 1

\* C7: when the athlete fetch fails, athlete stays null, every later
\* athlete-scoped request is addressed to the input athlete id, and the
\* returned activities, calendarEvents and wellness hold what their own
\* successful fetches returned.
C7_AthleteFetchFailed ==
    (Len(responses) >= 1 /\ ~responses[1].ok) =>
        /\ result.athlete = JNull
        /\ \A i \in 2..Len(requests) :
               requests[i].kind \in AthleteScoped => requests[i].id = athleteId
        /\ pc = "returned" =>
               /\ Answer("activities").ok => result.activities = Answer("activities").data
               /\ Answer("events").ok => result.calendarEvents = Answer("events").data
               /\ Answer("wellness").ok => result.wellness = Answer("wellness").data

C7_Witness ==
    /\ pc = "returned"
    /\ ~responses[1].ok
    /\ athleteId = "i7"
    /\ Len(result.activities.items) = 2
    /\ result.calendarEvents = JArray(<<"e1", "e2">>)
    /\ result.wellness = JArray(<<"w1">>)

\* C8 as claimed: when the athlete fetch succeeds, every later athlete-scoped
\* request is addressed to the id carried by the returned athlete record.
C8_Original ==
    (Len(responses) >= 1 /\ responses[1].ok) =>
        \A i \in 2..Len(requests) :
            requests[i].kind \in AthleteScoped =>
                requests[i].id = OptString(responses[1].data, "id")

\* C8 amended: when the athlete fetch succeeds with a record that carries a
\* non-empty id, every later athlete-scoped request is addressed to that id;
\* when the answer carries no id, they are addressed to the input id.
C8_ResolvedIdSupersedes ==
    (Len(responses) >= 1 /\ responses[1].ok) =>
        \A i \in 2..Len(requests) :
            requests[i].kind \in AthleteScoped =>
                requests[i].id =
                    IF Truthy(OptString(responses[1].data, "id"))
                    THEN OptString(responses[1].data, "id")
                    ELSE athleteId

C8_Witness ==
    /\ pc = "returned"
    /\ responses[1].ok
    /\ athleteId = "me"
    /\ result.athlete.t = "object"
    /\ Get(result.athlete.f, "id") = "i1"
    /\ \E i \in 2..Len(requests) : requests[i].kind = "power" /\ requests[i].id = "i1"

-----------------------------------------------------------------------------
(* Claim about saveData, checked under SpecSave.                           *)

\* C9: any two calls of saveData within one process return different
\* subdirectory paths, also when given the same name.
C9_DistinctSubDirs ==
    \A i, j \in 1..Len(saveLog) : i # j => saveLog[i] # saveLog[j]

-----------------------------------------------------------------------------
(* Claim about generateSummary, checked under SpecSummary.                 *)

\* The list the summary is to be taken from: the details, or the summary list
\* when there are no details.
SummarisedList ==
    IF result.activityDetails.items = <<>> THEN result.activities.items
    ELSE result.activityDetails.items

MembersAt(type) ==
    {i \in 1..Len(SummarisedList) : TypeOf(SummarisedList[i]) = type}

RECURSIVE SumAt(_, _)
SumAt(field, idxs) ==
    IF idxs = {} THEN 0
    ELSE LET i == CHOOSE i \in idxs : TRUE
         IN  SummarisedList[i][field] + SumAt(field, idxs \ {i})

\* C10: generateSummary reports one group per activity type of the detailed
\* list (of the summary list when there are no details), with the member
\* count, the distance sum in km to one decimal, and the moving-time sum as
\* H = floor(total / 3600) hours and M = floor((total mod 3600) / 60) minutes,
\* 0 <= M <= 59; two Runs of 5000 m / 1800 s and 10000 m / 3600 s are reported
\* as Run: 2 activities, 15.0km, 1h 30m.
C10_SummaryGroups ==
    summary.ran =>
        LET groups == summary.groups IN
        /\ {groups[i].type : i \in 1..Len(groups)} =
               {TypeOf(SummarisedList[i]) : i \in 1..Len(SummarisedList)}
        /\ \A i, j \in 1..Len(groups) : groups[i].type = groups[j].type => i = j
        /\ \A i \in 1..Len(groups) :
            LET g        == groups[i]
                distance == SumAt("distance", MembersAt(g.type))
                time     == SumAt("moving_time", MembersAt(g.type))
                tenths   == 10 * g.km + g.tenth
            IN  /\ g.count = Cardinality(MembersAt(g.type))
                /\ g.tenth \in 0..9
                /\ 100 * tenths - distance \in -50..50
                /\ g.minutes \in 0..59
                /\ 3600 * g.hours + 60 * g.minutes <= time
                /\ time < 3600 * g.hours + 60 * g.minutes + 60
        /\ ( /\ Len(SummarisedList) = 2
             /\ \A i \in 1..2 : SummarisedList[i].type = "Run"
             /\ {SummarisedList[i].distance : i \in 1..2} = {5000, 10000}
             /\ {SummarisedList[i].moving_time : i \in 1..2} = {1800, 3600} )
           => groups = <<[type |-> "Run", count |-> 2, km |-> 15, tenth |-> 0,
                          hours |-> 1, minutes |-> 30]>>

C10_Witness ==
    /\ summary.ran
    /\ Len(result.activityDetails.items) = 2
    /\ summary.groups = <<[type |-> "Run", count |-> 2, km |-> 15, tenth |-> 0,
                           hours |-> 1, minutes |-> 30]>>

-----------------------------------------------------------------------------
(* Claims about the command-line interface, checked under SpecCli.         *)

IsHelp == ~Truthy(argv.command) \/ argv.command \in {"help", "--help"}

\* The command succeeded: help was printed, or the one request was answered.
CliSucceeded == IsHelp \/ (Len(responses) = 1 /\ responses[1].ok)

\* C11: a run of the CLI that ends has written exactly one JSON object to
\* standard output, and nothing before it ends: {ok: true, data} without an
\* error when the command succeeded, {ok: false, error} with a non-empty
\* error and without data when anything failed; the exit code is non-zero
\* exactly when ok is false.
C11_OnePayloadPerRun ==
    /\ pc \in {"cli_start", "cli_stdin", "cli_wait"} => stdout = <<>> /\ exitCode = 0
    /\ pc = "cli_end" =>
        /\ Len(stdout) = 1
        /\ stdout[1].ok <=> CliSucceeded
        /\ stdout[1].ok => DOMAIN stdout[1] = {"ok", "data"}
        /\ ~stdout[1].ok =>
            /\ DOMAIN stdout[1] = {"ok", "error"}
            /\ Truthy(stdout[1].error)
        /\ exitCode # 0 <=> ~stdout[1].ok

\* A run whose request was rejected with an empty message.
C11_Witness ==
    /\ pc = "cli_end"
    /\ Len(responses) = 1 /\ ~responses[1].ok /\ responses[1].message = ""
    /\ stdout = << [ok |-> FALSE, error |-> "Error"] >>
    /\ exitCode = 1

-----------------------------------------------------------------------------
(* Further claims about downloadAllData, checked under SpecDownload.       *)

ListFields == {"activities", "activityDetails", "calendarEvents", "wellness"}

\* C12: in every reachable state of downloadAllData and in its result, the
\* list fields activities, activityDetails, calendarEvents and wellness are
\* sequences, never null or unset, whatever each remote call returns, so the
\* per-activity loop never fails on an absent collection.
C12_ListFieldsAreSequences ==
    /\ \A f \in ListFields : result[f].t = "array"
    /\ pc # "rejected"

\* The place of a request in the order of lines 56-133: athlete, activities,
\* detail then streams of each activity of the list, events, wellness, power.
Rank(r) ==
    CASE r.kind = "athlete"    -> 0
      [] r.kind = "activities" -> 1
      [] r.kind = "detail"     -> 2 * r.idx
      [] r.kind = "streams"    -> 2 * r.idx + 1
      [] r.kind = "events"     -> 2 * MaxActs + 2
      [] r.kind = "wellness"   -> 2 * MaxActs + 3
      [] r.kind = "power"      -> 2 * MaxActs + 4

\* C13: downloadAllData has at most one remote request in flight at any
\* time; each request is issued only after the previous one was answered, in
\* the order athlete, activities list, per-activity detail then streams in
\* list order, events, wellness, power curve; no request is issued twice.
C13_OneRequestAtATime ==
    /\ Cardinality(inflight) <= 1
    /\ inflight \subseteq {Len(requests)}
    /\ Len(requests) = Len(responses) + Cardinality(inflight)
    /\ \A i, j \in 1..Len(requests) :
        i < j => Rank(requests[i]) < Rank(requests[j])
    /\ \A i \in 1..Len(requests) :
        requests[i].kind \in {"detail", "streams"} =>
            requests[i].id = result.activities.items[requests[i].idx].id

\* A run that fetched the detail and the streams of two activities.
C13_Witness ==
    /\ pc = "returned"
    /\ Len(requests) = 9
    /\ \A i \in 1..9 : Rank(requests[i]) =
        <<0, 1, 2, 3, 4, 5, 2 * MaxActs + 2, 2 * MaxActs + 3, 2 * MaxActs + 4>>[i]

-----------------------------------------------------------------------------
(* Further claims about loadConfig, checked under SpecConfig.              *)

\* The env file the last call read: the one named by the environment the call
\* started with, or the default.
EnvFileRead == files[OrElse(Get(envBefore, ENV_FILE_VAR), DefaultEnvFile)]

\* The line is a definition KEY=VALUE of variable v with value val: not
\* blank, not a comment, v before its first '=' and val after it.
Defines(line, v, val) ==
    LET t == Trim(line) IN
    /\ t # <<>>
    /\ Head(t) # "#"
    /\ \E i \in 1..Len(t) :
        /\ t[i] = "="
        /\ \A j \in 1..(i - 1) : t[j] # "="
        /\ Str(Trim(SubSeq(t, 1, i - 1))) = v
        /\ Str(Trim(SubSeq(t, i + 1, Len(t)))) = val

\* C14: when the env file is absent or unreadable, hydration changes nothing
\* and loadConfig ends as resolution on the untouched environment ends (the
\* env file never makes it fail); when the file is readable, every variable
\* the call defined or changed comes from a KEY=VALUE line of the file: blank
\* lines and lines starting with '#' define nothing.
C14_HydrationIsQuiet ==
    calls >= 1 =>
        /\ EnvFileRead.kind \in {"absent", "unreadable"} =>
            /\ env = envBefore
            /\ cfg = Resolve(envBefore, files)
        /\ EnvFileRead.kind = "text" =>
            \A v \in DOMAIN env :
                (v \notin DOMAIN envBefore \/ env[v] # envBefore[v]) =>
                    \E i \in 1..Len(EnvFileRead.lines) :
                        Defines(EnvFileRead.lines[i], v, env[v])

\* An unreadable env file, with the configuration taken from the config file.
C14_Witness ==
    /\ calls = 1
    /\ EnvFileRead = Unreadable
    /\ env = envBefore
    /\ cfg = Returned("keyF", "urlF")

\* C15: loadConfig is idempotent: with the files unchanged, a second call
\* right after a first leaves process.env exactly as the first left it and
\* ends with the outcome of the first (the outcome of resolving the
\* environment the first call left).
C15_Idempotent ==
    calls = 2 =>
        /\ env = envBefore
        /\ cfg = Resolve(envBefore, files)

-----------------------------------------------------------------------------
(* Further claim about saveData, checked under SpecSave.                   *)

PerFieldFiles ==
    {"athlete.json", "activities-list.json", "activities-detailed.json",
     "calendar-events.json", "wellness.json", "power-curve.json"}

FilesOf(op) == {op.wrote[i] : i \in 1..Len(op.wrote)}

\* C16: every saveData call that returns has written, each once, the six
\* per-field files and all-data.json into its subdirectory, and the
\* activity-streams file exactly when the streams mapping of the result has
\* at least one key.
C16_FilesOfACall ==
    \A k \in 1..Len(saveOps) :
        saveOps[k].returned =>
            /\ PerFieldFiles \cup {"all-data.json"} \subseteq FilesOf(saveOps[k])
            /\ FilesOf(saveOps[k]) \subseteq
                    PerFieldFiles \cup {"all-data.json", "activity-streams.json"}
            /\ "activity-streams.json" \in FilesOf(saveOps[k])
                    <=> DOMAIN result.streams.f # {}
            /\ Len(saveOps[k].wrote) = Cardinality(FilesOf(saveOps[k]))
            /\ FilesOf(saveOps[k]) \subseteq DOMAIN disk[saveOps[k].dir]

\* A returned call on a result without streams, after a returned call.
C16_Witness ==
    /\ Len(saveOps) = 2
    /\ saveOps[1].returned /\ saveOps[2].returned
    /\ DOMAIN result.streams.f = {}
    /\ disk[saveOps[2].dir] = FilesWritten(result)

-----------------------------------------------------------------------------
(* Claims about the per-activity loop, checked under SpecDownload.         *)

\* The positions in requests of the requests of the kind for activity i.
RequestsFor(kind, i) ==
    {k \in 1..Len(requests) : requests[k].kind = kind /\ requests[k].idx = i}

\* The answered request of the kind for activity i failed.
FailedFor(kind, i) ==
    \E k \in RequestsFor(kind, i) : k <= Len(responses) /\ ~responses[k].ok

\* The failure of the detail request of activity i was printed.
DetailFailureLogged(i) ==
    \E n \in 1..Len(log) :
        log[n] = [kind |-> "detail", id |-> result.activities.items[i].id,
                  idx |-> i, ok |-> FALSE]

\* No streams fetch for the id of activity i succeeded.
NoStreamsFetched(i) ==
    \A j \in 1..Len(result.activities.items) :
        result.activities.items[j].id = result.activities.items[i].id
            => j \notin OkIdx("streams")

\* C17 as stated: when downloadAllData returns, every listed activity has had
\* a detail request and a streams request; a failed detail request is logged
\* and prevents neither the requests of later activities nor the streams
\* request of its own activity; a failed streams request leaves the id
\* absent from streams.
C17_Original ==
    pc = "returned" =>
        \A i \in 1..Len(result.activities.items) :
            /\ Cardinality(RequestsFor("detail", i)) = 1
            /\ Cardinality(RequestsFor("streams", i)) = 1
            /\ FailedFor("detail", i) => DetailFailureLogged(i)
            /\ FailedFor("streams", i) /\ NoStreamsFetched(i) =>
                result.activities.items[i].id \notin DOMAIN result.streams.f

\* C17, amended: every listed activity has had a detail request; its streams
\* request is issued exactly when its detail request succeeded, right after
\* it; a failed detail request is logged, skips the streams request of its
\* own activity and does not prevent the requests of later activities; a
\* failed streams request leaves the id absent from streams.
C17_StreamsAfterDetail ==
    /\ \A k \in 1..Len(requests) :
        requests[k].kind = "streams" =>
            /\ k > 1
            /\ requests[k - 1] = [requests[k] EXCEPT !.kind = "detail"]
            /\ responses[k - 1].ok
    /\ pc = "returned" =>
        \A i \in 1..Len(result.activities.items) :
            /\ Cardinality(RequestsFor("detail", i)) = 1
            /\ Cardinality(RequestsFor("streams", i)) =
                    IF FailedFor("detail", i) THEN 0 ELSE 1
            /\ FailedFor("detail", i) => DetailFailureLogged(i)
            /\ FailedFor("streams", i) /\ NoStreamsFetched(i) =>
                result.activities.items[i].id \notin DOMAIN result.streams.f

\* A returned run over two activities: the detail request of the first
\* failed, the streams request of the second failed.
C17_Witness ==
    /\ pc = "returned"
    /\ Len(result.activities.items) = 2
    /\ FailedFor("detail", 1) /\ RequestsFor("streams", 1) = {}
    /\ RequestsFor("detail", 2) # {} /\ FailedFor("streams", 2)
    /\ DetailFailureLogged(1)
    /\ result.streams.f = NoFields

-----------------------------------------------------------------------------
(* Claim about the base URL, checked under SpecConfig.                     *)

\* C18: when the API-key variable is set to a non-empty value before
\* loadConfig is called, the returned baseUrl is the value the base-URL
\* variable had in the environment before the call, unset when it was not
\* there (the client then sends to the default origin): neither the env file
\* nor the config file is consulted for it.
C18_BaseUrlFromEnvironmentOnly ==
    (calls >= 1 /\ Truthy(Get(envBefore, API_KEY_VAR))) =>
        /\ cfg.status = "ok"
        /\ cfg.baseUrl = Get(envBefore, BASE_URL_VAR)
        /\ BASE_URL_VAR \notin DOMAIN envBefore => ClientOrigin(cfg) = DefaultOrigin

-----------------------------------------------------------------------------
(* Claim about persistence in main, checked under SpecDownload.            *)

\* C19: persistence is all-or-nothing: no file is written before every fetch
\* step has completed or failed, saveData runs before generateSummary, and a
\* run never leaves a run directory holding only some of the result files.
C19_AllOrNothing ==
    /\ disk # NoFields =>
        /\ pc \in {"saved", "threw", "done", "exit1"}
        /\ inflight = {}
        /\ Len(responses) = Len(requests)
    /\ summary.ran => Len(saveLog) = 1
    /\ \A dir \in DOMAIN disk :
        DOMAIN disk[dir] = {} \/ disk[dir] = FilesWritten(result)

-----------------------------------------------------------------------------
(* Claim about the requests of the CLI, checked under SpecCli.             *)

\* The input of the run: the parsed --json argument or standard input.
CliInput == parseInput(argv, IF argv.json THEN undefined ELSE argv.stdin)

\* The input carries no (truthy) value for the field.
Lacks(field) ==
    \/ ~CliInput.ok
    \/ CliInput.value.t # "object"
    \/ ~Truthy(Get(CliInput.value.f, field))

\* The errors the CLI detects locally.
LocalError ==
    /\ ~IsHelp
    /\ \/ cfg.status = "error"
       \/ argv.command \notin {"get-athlete", "get-activities", "get-calendar-events",
                               "upload-workout", "delete-event"}
       \/ argv.command = "upload-workout" /\ Lacks("workout")
       \/ argv.command = "delete-event" /\ Lacks("eventId")

\* C20: in a run in which the CLI detects an error locally (configuration
\* resolution fails, the command is unknown, upload-workout has no workout,
\* delete-event has no eventId) no remote request is ever sent, and the run
\* ends with ok = false.
C20_NoRequestOnLocalError ==
    LocalError =>
        /\ requests = <<>>
        /\ pc \notin {"cli_wait"}
        /\ pc = "cli_end" =>
            /\ Len(stdout) = 1 /\ ~stdout[1].ok
            /\ exitCode = 1

\* delete-event with an empty eventId and a usable configuration.
C20_Witness ==
    /\ pc = "cli_end"
    /\ argv.command = "delete-event"
    /\ cfg.status = "ok"
    /\ CliInput = Parsed(JObject([eventId |-> ""]))
    /\ requests = <<>>
    /\ stdout = << [ok |-> FALSE, error |-> "Missing eventId"] >>

====
